---- MODULE Spec2Model ----
(***************************************************************************)
(* SBOMVisor (src/main.py): normalisation of an SBOM document into a list  *)
(* of dependency records, construction of the dependency graph, the        *)
(* sequential vulnerability lookups, and the control flow of main.         *)
(*                                                                         *)
(* Python values are represented as follows.                               *)
(*   dict        a function from key strings to values (a TLA+ record);    *)
(*               "k in d" is  k \in DOMAIN d                               *)
(*   list        a sequence                                                *)
(*   str         a TLA+ string; a str stored in a list that also holds     *)
(*               dicts is the one-field record [str |-> s]                 *)
(*   int/None/{} a tagged record [t |-> ..., v |-> ...]                    *)
(***************************************************************************)
EXTENDS Integers, Sequences, FiniteSets, TLC

VARIABLES
    pc,             \* control location of the running call
    schemaOnDisk,   \* the schema file of the chosen format exists on disk
    schemaExisted,  \* value of os.path.exists(schema_file) read by main
    invocations,    \* number of times main has been started
    fmt,            \* the format tag (args.format / sbom_format)
    input,          \* what parse_sbom finds at args.file
    sbom,           \* the parsed document
    dependencies,   \* the list returned by process_sbom
    tree,           \* the Digraph returned by generate_dependency_tree
    exc,            \* the exception that terminated the run, or "none"
    artifacts,      \* files written by render / convert_sbom_to_csv
    i,              \* position of check_all_vulnerabilites in its loop
    lookups,        \* calls made to check_vulnerabilities, in order
    report          \* vulnerabilities_report

vars == <<pc, schemaOnDisk, schemaExisted, invocations, fmt, input, sbom,
          dependencies, tree, exc, artifacts, i, lookups, report>>

----------------------------------------------------------------------------
(* Bounds *)

MaxComps == 3
MaxDepEntries == 1
MaxList == 3
MaxInvocations == 2

----------------------------------------------------------------------------
(* Python helpers *)

Get(d, k, default) == IF k \in DOMAIN d THEN d[k] ELSE default

PyStr(s) == [str |-> s]
IsStr(x) == "str" \in DOMAIN x

PyInt(n) == [t |-> "int", v |-> n]
PyNone == [t |-> "None", v |-> 0]
PyEmptyDict == [t |-> "dict", v |-> 0]
PyPayload(p) == [t |-> "payload", v |-> p]

RECURSIVE WrapAll(_)
WrapAll(strs) ==
    IF strs = <<>> THEN <<>> ELSE <<PyStr(Head(strs))>> \o WrapAll(Tail(strs))

\* The characters of the strings that occur as dependency references.
Spell(s) ==
    CASE s = ""       -> <<>>
      [] s = "A"      -> <<"A">>
      [] s = "B"      -> <<"B">>
      [] s = "C"      -> <<"C">>
      [] s = "Z"      -> <<"Z">>
      [] s = "name"   -> <<"n", "a", "m", "e">>
      [] s = "pkg:B"  -> <<"p", "k", "g", ":", "B">>
      [] s = "rename" -> <<"r", "e", "n", "a", "m", "e">>
      [] s = "Unknown" -> <<"U", "n", "k", "n", "o", "w", "n">>

\* Python's  needle in hay  for two str values.
StrContains(hay, needle) ==
    LET h == Spell(hay)
        n == Spell(needle)
    IN  \E k \in 0..(Len(h) - Len(n)) :
            \A j \in 1..Len(n) : h[k + j] = n[j]

\* Python's  'name' in x  for x a dict or a str.
NameIn(x) == IF IsStr(x) THEN StrContains(x.str, "name") ELSE "name" \in DOMAIN x

----------------------------------------------------------------------------
(* process_cyclonedx_sbom *)

RECURSIVE SubComponents(_)
SubComponents(subs) ==
    IF subs = <<>> THEN <<>>
    ELSE <<[type    |-> Get(Head(subs), "type", "Unknown"),
            name    |-> Get(Head(subs), "name", "Unknown"),
            version |-> Get(Head(subs), "version", "Unknown")]>>
         \o SubComponents(Tail(subs))

RECURSIVE Ancestors(_)
Ancestors(ancs) ==
    IF ancs = <<>> THEN <<>>
    ELSE <<[type    |-> Get(Head(ancs), "type", "Unknown"),
            name    |-> Get(Head(ancs), "type", "Unknown"),
            version |-> Get(Head(ancs), "version", "Unknown"),
            purl    |-> Get(Head(ancs), "purl", "")]>>
         \o Ancestors(Tail(ancs))

RECURSIVE Occurrences(_)
Occurrences(occs) ==
    IF occs = <<>> THEN <<>>
    ELSE <<[bomref   |-> Get(Head(occs), "bom-ref", ""),
            location |-> Get(Head(occs), "location", "")]>>
         \o Occurrences(Tail(occs))

DepInfo(comp) ==
    [type         |-> Get(comp, "type", "Unknown"),
     name         |-> Get(comp, "name", "Unknown"),
     version      |-> Get(comp, "version", "Unknown"),
     group        |-> Get(comp, "group", ""),
     purl         |-> Get(comp, "purl", ""),
     dependencies |-> IF "components" \in DOMAIN comp
                      THEN SubComponents(comp.components) ELSE <<>>,
     pedigree     |-> IF "pedigree" \in DOMAIN comp
                      THEN Ancestors(Get(comp.pedigree, "ancestors", <<>>))
                      ELSE <<>>,
     evidence     |-> IF "evidence" \in DOMAIN comp
                         /\ "occurrences" \in DOMAIN comp.evidence
                      THEN Occurrences(comp.evidence.occurrences) ELSE <<>>]

RECURSIVE ComponentList(_)
ComponentList(comps) ==
    IF comps = <<>> THEN <<>>
    ELSE <<DepInfo(Head(comps))>> \o ComponentList(Tail(comps))

\* The test of line 120.
RefMatches(d, ref) == d.name = ref \/ d.purl = ref

\* A loop that stops at the first matching component (a break after line
\* 121), for comparison with the loop the code has.
AttachFirstOnly(deps, ref, depends_on) ==
    [k \in 1..Len(deps) |->
        IF RefMatches(deps[k], ref)
           /\ \A j \in 1..(k - 1) : ~RefMatches(deps[j], ref)
        THEN [deps[k] EXCEPT !.dependencies = @ \o WrapAll(depends_on)]
        ELSE deps[k]]

\* The inner loop of lines 119-121 for one entry of the global section:
\* every matching component is extended.
AttachDependsOn(deps, ref, depends_on) ==
    [k \in 1..Len(deps) |->
        IF RefMatches(deps[k], ref)
        THEN [deps[k] EXCEPT !.dependencies = @ \o WrapAll(depends_on)]
        ELSE deps[k]]

RECURSIVE GlobalDependencies(_, _)
GlobalDependencies(deps, entries) ==
    IF entries = <<>> THEN deps
    ELSE GlobalDependencies(
            AttachDependsOn(deps, Get(Head(entries), "ref", ""),
                            Get(Head(entries), "dependsOn", <<>>)),
            Tail(entries))

process_cyclonedx_sbom(doc) ==
    LET comps == IF "components" \in DOMAIN doc
                 THEN ComponentList(doc.components) ELSE <<>>
    IN  IF "dependencies" \in DOMAIN doc
        THEN GlobalDependencies(comps, doc.dependencies)
        ELSE comps

----------------------------------------------------------------------------
(* process_spdx_sbom, process_sbom *)

PackageInfo(package) ==
    [name             |-> Get(package, "name", "Unknown"),
     version          |-> Get(package, "versionInfo", "Unknown"),
     supplier         |-> Get(package, "supplier", "Unknown"),
     downloadLocation |-> Get(package, "downloadLocation", "Unknown"),
     filesAnalyzed    |-> Get(package, "filesAnalyzed", FALSE),
     licenseConcluded |-> Get(package, "licenseConcluded", "Unknown"),
     licenseDeclared  |-> Get(package, "licenseDeclared", "Unknown")]

RECURSIVE PackageList(_)
PackageList(packages) ==
    IF packages = <<>> THEN <<>>
    ELSE <<PackageInfo(Head(packages))>> \o PackageList(Tail(packages))

process_spdx_sbom(doc) ==
    IF "packages" \in DOMAIN doc THEN PackageList(doc.packages) ELSE <<>>

process_sbom(doc, sbom_format) ==
    IF sbom_format = "cyclonedx" THEN process_cyclonedx_sbom(doc)
    ELSE IF sbom_format = "spdx" THEN process_spdx_sbom(doc)
    ELSE <<>>

----------------------------------------------------------------------------
(* generate_dependency_tree *)

\* A Digraph cluster is the sequence of statements appended to its body.
NodeStmt(name, label) == [kind |-> "node", name |-> name, label |-> label]
EdgeStmt(tail, head, label) ==
    [kind |-> "edge", tail |-> tail, head |-> head, label |-> label]

\* An edge with its endpoints exchanged, for comparison with line 235.
EdgeReversed(component_name, dependency) ==
    EdgeStmt(dependency.name, component_name,
             "Version: " \o Get(dependency, "version", "Unknown"))

\* Lines 232-235: the edge from the component to a dict dependency.
DependencyEdge(component_name, dependency) ==
    EdgeStmt(component_name, dependency.name,
             "Version: " \o Get(dependency, "version", "Unknown"))

\* Lines 230-235 over component['dependencies'].  A str entry that contains
\* "name" passes the test of line 231 and then fails at dependency['name']
\* with a TypeError; any other str entry is skipped.
RECURSIVE AddEdges(_, _, _)
AddEdges(body, component_name, deps) ==
    IF deps = <<>> THEN [body |-> body, raised |-> "none"]
    ELSE IF ~NameIn(Head(deps))
         THEN AddEdges(body, component_name, Tail(deps))
    ELSE IF IsStr(Head(deps))
         THEN [body |-> body, raised |-> "TypeError"]
    ELSE AddEdges(Append(body, DependencyEdge(component_name, Head(deps))),
                  component_name, Tail(deps))

\* clusters[cluster] with the body replaced, creating the cluster if needed.
PutCluster(clusters, cluster, body) ==
    [c \in (DOMAIN clusters) \cup {cluster} |->
        IF c = cluster THEN body ELSE clusters[c]]

\* Lines 212-235 for one component.
AddComponent(clusters, component) ==
    IF "name" \notin DOMAIN component
    THEN [clusters |-> clusters, raised |-> "none"]
    ELSE
        LET component_name    == component.name
            component_version == Get(component, "version", "Unknown")
            component_cluster == Get(component, "cluster", "default")
            body0  == IF component_cluster \in DOMAIN clusters
                      THEN clusters[component_cluster] ELSE <<>>
            body1  == Append(body0,
                        NodeStmt(component_name,
                                 component_name \o "\n" \o component_version))
            edges  == IF "dependencies" \in DOMAIN component
                      THEN AddEdges(body1, component_name,
                                    component.dependencies)
                      ELSE [body |-> body1, raised |-> "none"]
        IN  [clusters |-> PutCluster(clusters, component_cluster, edges.body),
             raised   |-> edges.raised]

RECURSIVE TreeLoop(_, _)
TreeLoop(clusters, comps) ==
    IF comps = <<>> THEN [clusters |-> clusters, raised |-> "none"]
    ELSE LET r == AddComponent(clusters, Head(comps))
         IN  IF r.raised # "none" THEN r
             ELSE TreeLoop(r.clusters, Tail(comps))

\* The result: the clusters added to the main graph as subgraphs, or the
\* exception that left the function.
generate_dependency_tree(deps) == TreeLoop(<<>>, deps)

\* Reading the graph.
Statements(t) ==
    UNION {{t[c][k] : k \in 1..Len(t[c])} : c \in DOMAIN t}
DeclaredNodes(t) == {s.name : s \in {x \in Statements(t) : x.kind = "node"}}
NodeLabels(t) == {s.label : s \in {x \in Statements(t) : x.kind = "node"}}
Edges(t) ==
    {<<s.tail, s.head>> : s \in {x \in Statements(t) : x.kind = "edge"}}
\* Nodes as the DOT language defines them: declared or named by an edge.
GraphNodes(t) ==
    DeclaredNodes(t) \cup {e[1] : e \in Edges(t)} \cup {e[2] : e \in Edges(t)}

----------------------------------------------------------------------------
(* check_vulnerabilities *)

\* The address tests/test_basic.py expects the request to go to.
RequestUrlOfTest(library) == "https://vulndb.com/api/" \o library

\* The address requested at line 256.
RequestUrl(library) == "https://vuldb.com/api/" \o library

\* What requests.get can do: answer with a status and a body, raise a
\* RequestException, or never answer (the call passes no timeout).
Findings == [vulnerabilities |-> <<[id |-> "CVE-1234", severity |-> "high"]>>]
Clean == [vulnerabilities |-> <<>>]
Response(status, body) ==
    [kind |-> "response", status_code |-> status, json |-> body]
Outcomes ==
    {Response(200, Findings), Response(200, Clean), Response(404, Clean),
     [kind |-> "RequestException"], [kind |-> "silent"]}

\* The value tests/test_basic.py expects: the payload of a 200 answer.
ReturnedPayload(outcome) ==
    IF outcome.kind = "RequestException" THEN PyEmptyDict
    ELSE IF outcome.status_code = 200 THEN PyPayload(outcome.json)
    ELSE PyNone

\* Lines 255-264: the value returned for an outcome that lets the call end:
\* the status code on 200, None on another status, {} on an exception.
Returned(outcome) ==
    IF outcome.kind = "RequestException" THEN PyEmptyDict
    ELSE IF outcome.status_code = 200 THEN PyInt(outcome.status_code)
    ELSE PyNone

Pending == [t |-> "pending", v |-> 0]

----------------------------------------------------------------------------
(* Input documents *)

SeqsUpTo(S, n) == UNION {[1..k -> S] : k \in 0..n}

CompA1 == [name |-> "A", version |-> "1",
           components |-> <<[name |-> "B", version |-> "2"]>>]
CompB2 == [name |-> "B", version |-> "2", purl |-> "pkg:B"]
CompC1 == [name |-> "C", version |-> "1"]
\* No name and no version; its purl equals the name of CompA1.
CompU  == [purl |-> "A", type |-> "library",
           pedigree |-> [ancestors |-> <<[type |-> "library", version |-> "0"]>>],
           evidence |-> [occurrences |-> <<[location |-> "src/a.py"]>>]]
Components == {CompA1, CompB2, CompC1, CompU}

Refs == {"A", "pkg:B", "Z"}
DependsOnLists == {<<"C">>, <<"Z">>, <<"rename">>, <<"Z", "C">>}
DepEntries ==
    {[ref |-> r, dependsOn |-> t] : r \in Refs, t \in DependsOnLists}
    \cup {[dependsOn |-> t] : t \in DependsOnLists}
    \cup {[ref |-> r] : r \in Refs}

CycloneDocs ==
    {[components |-> c] : c \in SeqsUpTo(Components, MaxComps)}
    \cup {[components |-> c, dependencies |-> d] :
            c \in SeqsUpTo(Components, MaxComps),
            d \in SeqsUpTo(DepEntries, MaxDepEntries)}
    \cup {[dependencies |-> d] : d \in SeqsUpTo(DepEntries, MaxDepEntries)}

PackageA == [name |-> "A", versionInfo |-> "1", filesAnalyzed |-> TRUE,
             licenseConcluded |-> "MIT"]
PackageU == [supplier |-> "Org"]
SpdxDocs ==
    {[packages |-> <<>>], [packages |-> <<PackageA>>],
     [packages |-> <<PackageA, PackageU>>],
     [packages |-> <<PackageU, PackageA>>,
      dependencies |-> <<[ref |-> "A", dependsOn |-> <<"Z">>]>>]}

\* The document of the three-component scenario and its variant with an
\* unresolvable target.
DocABC(target) ==
    [components   |-> <<CompA1, CompB2, CompC1>>,
     dependencies |-> <<[ref |-> "A", dependsOn |-> <<target>>]>>]

\* What parse_sbom finds at the path given on the command line.
\* An XML root element contains no str, so every  'key' in root  is false.
XmlRoot == [k \in {} |-> 0]
MainInputs ==
    {[kind |-> "json", doc |-> d] :
        d \in {DocABC("C"), DocABC("Z"), DocABC("rename"),
               [components |-> <<CompA1, CompA1>>],
               [components |-> <<>>],
               [packages |-> <<PackageA, PackageU>>]}}
    \cup {[kind |-> "xml", doc |-> XmlRoot],
          [kind |-> "unsupported", doc |-> XmlRoot]}

\* Lists handed to check_all_vulnerabilites.
DepItems == {[name |-> "A", version |-> "1"], [name |-> "A", version |-> "2"],
             [name |-> "B", version |-> "2"]}
DepLists == SeqsUpTo(DepItems, MaxList)

----------------------------------------------------------------------------
(* State *)

Unbound == [t |-> "unbound", v |-> 0]

\* The values of the run-local variables before the run assigns them.
RunLocalsFresh ==
    /\ sbom = Unbound
    /\ dependencies = <<>>
    /\ tree = <<>>
    /\ exc = "none"
    /\ i = 0
    /\ lookups = <<>>
    /\ report = <<>>

\* report[key] = value, adding the key if it is new (line 250).
Put(table, key, value) ==
    [k \in (DOMAIN table) \cup {key} |-> IF k = key THEN value ELSE table[k]]

----------------------------------------------------------------------------
(* process_sbom and generate_dependency_tree as steps of their caller *)

\* dependencies = process_sbom(sbom, args.format)
ProcessSbom ==
    /\ pc = "process"
    /\ dependencies' = process_sbom(sbom, fmt)
    /\ pc' = "processed"
    /\ UNCHANGED <<schemaOnDisk, schemaExisted, invocations, fmt, input, sbom,
                   tree, exc, artifacts, i, lookups, report>>

\* A caller that hands the list to generate_dependency_tree as it is.
PassToTree ==
    /\ pc = "processed"
    /\ pc' = "tree"
    /\ UNCHANGED <<schemaOnDisk, schemaExisted, invocations, fmt, input, sbom,
                   dependencies, tree, exc, artifacts, i, lookups, report>>

\* tree = generate_dependency_tree(dependencies); an exception leaves the
\* function without a result and is caught by nobody.
GenerateTree ==
    /\ pc = "tree"
    /\ LET r == generate_dependency_tree(dependencies)
       IN  IF r.raised = "none"
           THEN /\ tree' = r.clusters
                /\ exc' = exc
                /\ pc' = "tree_returned"
           ELSE /\ tree' = tree
                /\ exc' = r.raised
                /\ pc' = "raised"
    /\ UNCHANGED <<schemaOnDisk, schemaExisted, invocations, fmt, input, sbom,
                   dependencies, artifacts, i, lookups, report>>

----------------------------------------------------------------------------
(* check_all_vulnerabilites *)

\* Line 247 on entry.
EnterCheckAll ==
    /\ pc = "check_all"
    /\ report' = <<>>
    /\ i' = 1
    /\ pc' = "vuln_loop"
    /\ UNCHANGED <<schemaOnDisk, schemaExisted, invocations, fmt, input, sbom,
                   dependencies, tree, exc, artifacts, lookups>>

\* Line 249: the call check_vulnerabilities(dep['name']) sends its request.
IssueLookup ==
    /\ pc = "vuln_loop"
    /\ i <= Len(dependencies)
    /\ \E outcome \in Outcomes :
          lookups' = Append(lookups,
                        [library  |-> dependencies[i].name,
                         url      |-> RequestUrl(dependencies[i].name),
                         outcome  |-> outcome,
                         returned |-> Pending])
    /\ pc' = "awaiting"
    /\ UNCHANGED <<schemaOnDisk, schemaExisted, invocations, fmt, input, sbom,
                   dependencies, tree, exc, artifacts, i, report>>

\* requests.get ends, check_vulnerabilities returns, line 250 stores the
\* value.  A request that is never answered never gets here.
LookupReturns ==
    /\ pc = "awaiting"
    /\ lookups[Len(lookups)].outcome.kind # "silent"
    /\ LET value == Returned(lookups[Len(lookups)].outcome)
       IN  /\ lookups' = [lookups EXCEPT ![Len(lookups)].returned = value]
           /\ report' = Put(report, dependencies[i].name, value)
    /\ i' = i + 1
    /\ pc' = "vuln_loop"
    /\ UNCHANGED <<schemaOnDisk, schemaExisted, invocations, fmt, input, sbom,
                   dependencies, tree, exc, artifacts>>

\* Line 251.
ReturnReport ==
    /\ pc = "vuln_loop"
    /\ i > Len(dependencies)
    /\ pc' = "vuln_returned"
    /\ UNCHANGED <<schemaOnDisk, schemaExisted, invocations, fmt, input, sbom,
                   dependencies, tree, exc, artifacts, i, lookups, report>>

----------------------------------------------------------------------------
(* main *)

\* Lines 296-307: the schema file is looked up; main goes on to parse only
\* when it is already there.
CheckSchema ==
    /\ pc = "main"
    /\ schemaExisted' = schemaOnDisk
    /\ pc' = IF schemaOnDisk THEN "parse" ELSE "download"
    /\ UNCHANGED <<schemaOnDisk, invocations, fmt, input, sbom, dependencies,
                   tree, exc, artifacts, i, lookups, report>>

\* A main whose return of line 305 belongs to the inner if, so that it goes
\* on after a successful download; for comparison with the code.
DownloadSchemaAndGoOn ==
    /\ pc = "download"
    /\ \E ok \in BOOLEAN :
          /\ schemaOnDisk' = ok
          /\ pc' = IF ok THEN "parse" ELSE "returned"
    /\ UNCHANGED <<schemaExisted, invocations, fmt, input, sbom, dependencies,
                   tree, exc, artifacts, i, lookups, report>>

\* Lines 301-305: download_schema writes the file on a 200 answer and
\* returns an error text otherwise; main then returns in both cases.
DownloadSchema ==
    /\ pc = "download"
    /\ \E ok \in BOOLEAN : schemaOnDisk' = ok
    /\ pc' = "returned"
    /\ UNCHANGED <<schemaExisted, invocations, fmt, input, sbom, dependencies,
                   tree, exc, artifacts, i, lookups, report>>

\* Line 309 and parse_sbom: .json gives the document, .xml the root
\* element, anything else None.
ParseSbom ==
    /\ pc = "parse"
    /\ sbom' = IF input.kind \in {"json", "xml"} THEN input.doc ELSE PyNone
    /\ pc' = IF input.kind \in {"json", "xml"} THEN "process" ELSE "parse_failed"
    /\ UNCHANGED <<schemaOnDisk, schemaExisted, invocations, fmt, input,
                   dependencies, tree, exc, artifacts, i, lookups, report>>

\* Line 314.
BranchOnDependencies ==
    /\ pc = "processed"
    /\ pc' = IF dependencies # <<>> THEN "tree" ELSE "no_dependencies"
    /\ UNCHANGED <<schemaOnDisk, schemaExisted, invocations, fmt, input, sbom,
                   dependencies, tree, exc, artifacts, i, lookups, report>>

\* Line 316.
RenderTree ==
    /\ pc = "tree_returned"
    /\ artifacts' = artifacts \cup {"dependency_tree.gv.pdf"}
    /\ pc' = "csv"
    /\ UNCHANGED <<schemaOnDisk, schemaExisted, invocations, fmt, input, sbom,
                   dependencies, tree, exc, i, lookups, report>>

\* Lines 319-321.
ConvertCsv ==
    /\ pc = "csv"
    /\ artifacts' = artifacts \cup {"sbom_data.csv"}
    /\ pc' = "check_all"
    /\ UNCHANGED <<schemaOnDisk, schemaExisted, invocations, fmt, input, sbom,
                   dependencies, tree, exc, i, lookups, report>>

\* Line 324.
PrintReport ==
    /\ pc = "vuln_returned"
    /\ pc' = "main_done"
    /\ UNCHANGED <<schemaOnDisk, schemaExisted, invocations, fmt, input, sbom,
                   dependencies, tree, exc, artifacts, i, lookups, report>>

MainEnded ==
    pc \in {"returned", "parse_failed", "no_dependencies", "raised", "main_done"}

\* The tool is started again with the same arguments; only the files on
\* disk survive.
InvokeAgain ==
    /\ MainEnded
    /\ invocations < MaxInvocations
    /\ invocations' = invocations + 1
    /\ pc' = "main"
    /\ schemaExisted' = FALSE
    /\ sbom' = Unbound
    /\ dependencies' = <<>>
    /\ tree' = <<>>
    /\ exc' = "none"
    /\ i' = 0
    /\ lookups' = <<>>
    /\ report' = <<>>
    /\ UNCHANGED <<schemaOnDisk, fmt, input, artifacts>>

----------------------------------------------------------------------------
(* Specifications *)

\* The whole tool, started from the command line.
Init ==
    /\ pc = "main"
    /\ schemaOnDisk \in BOOLEAN
    /\ schemaExisted = FALSE
    /\ invocations = 1
    /\ fmt \in {"cyclonedx", "spdx"}
    /\ input \in MainInputs
    /\ artifacts = {}
    /\ RunLocalsFresh

Next ==
    \/ CheckSchema
    \/ DownloadSchema
    \/ ParseSbom
    \/ ProcessSbom
    \/ BranchOnDependencies
    \/ GenerateTree
    \/ RenderTree
    \/ ConvertCsv
    \/ EnterCheckAll
    \/ IssueLookup
    \/ LookupReturns
    \/ ReturnReport
    \/ PrintReport
    \/ InvokeAgain

Spec == Init /\ [][Next]_vars

\* process_sbom followed by generate_dependency_tree, on any document.
InitGraph ==
    /\ pc = "process"
    /\ \/ fmt = "cyclonedx" /\ sbom \in CycloneDocs
       \/ fmt \in {"cyclonedx", "spdx", "other"} /\ sbom \in SpdxDocs
    /\ schemaOnDisk = TRUE
    /\ schemaExisted = TRUE
    /\ invocations = 1
    /\ input = [kind |-> "json", doc |-> sbom]
    /\ artifacts = {}
    /\ dependencies = <<>>
    /\ tree = <<>>
    /\ exc = "none"
    /\ i = 0
    /\ lookups = <<>>
    /\ report = <<>>

NextGraph == ProcessSbom \/ PassToTree \/ GenerateTree

SpecGraph == InitGraph /\ [][NextGraph]_vars

\* check_all_vulnerabilites on any list of dependency records.
InitVuln ==
    /\ pc = "check_all"
    /\ dependencies \in DepLists
    /\ schemaOnDisk = TRUE
    /\ schemaExisted = TRUE
    /\ invocations = 1
    /\ fmt = "cyclonedx"
    /\ input = [kind |-> "json", doc |-> XmlRoot]
    /\ sbom = Unbound
    /\ artifacts = {}
    /\ tree = <<>>
    /\ exc = "none"
    /\ i = 0
    /\ lookups = <<>>
    /\ report = <<>>

NextVuln == EnterCheckAll \/ IssueLookup \/ LookupReturns \/ ReturnReport

SpecVuln == InitVuln /\ [][NextVuln]_vars

\* The same call when every step that can be taken is eventually taken: the
\* loop is sequential code that runs on whenever it is not blocked in
\* requests.get.
FairSpecVuln == InitVuln /\ [][NextVuln]_vars /\ WF_vars(NextVuln)

----------------------------------------------------------------------------
(* Properties of the graph construction (SpecGraph) *)

\* The str entries that the global section attached to a dependency record.
AttachedStrs(d) ==
    IF "dependencies" \in DOMAIN d THEN SelectSeq(d.dependencies, IsStr)
    ELSE <<>>

DocComponents(doc) ==
    IF "components" \in DOMAIN doc THEN ComponentList(doc.components) ELSE <<>>
DocEntries(doc) ==
    IF "dependencies" \in DOMAIN doc THEN doc.dependencies ELSE <<>>

\* A reference string resolves when some component has it as name or purl.
Resolves(doc, r) ==
    \E k \in 1..Len(DocComponents(doc)) : RefMatches(DocComponents(doc)[k], r)

\* The 'ref' values and 'dependsOn' targets the global section mentions.
References(doc) ==
    UNION {((IF "ref" \in DOMAIN e THEN {e.ref} ELSE {})
            \cup {Get(e, "dependsOn", <<>>)[j] :
                    j \in 1..Len(Get(e, "dependsOn", <<>>))}) :
           e \in {DocEntries(doc)[k] : k \in 1..Len(DocEntries(doc))}}

UnresolvedReferences(doc) == {r \in References(doc) : ~Resolves(doc, r)}

GraphStage == pc \in {"tree_returned", "raised"}

\* C1: for every CycloneDX document, each reference of the global section
\* that equals no component's name or purl appears in the built graph as a
\* node carrying that reference string, and graph construction ends without
\* an exception.
C1_UnresolvedBecomesUnknownNode ==
    (GraphStage /\ fmt = "cyclonedx") =>
        /\ exc = "none"
        /\ \A r \in UnresolvedReferences(sbom) :
              r \in GraphNodes(tree) \cup NodeLabels(tree)

\* C4: the document with components A v1 (nesting B), B v2, C v1 and the
\* global entry  ref "A" dependsOn ["C"]  yields a graph with exactly the
\* nodes A, B, C and with both edges A->B and A->C.
C4_ThreeComponentScenario ==
    (GraphStage /\ fmt = "cyclonedx" /\ sbom = DocABC("C")) =>
        /\ pc = "tree_returned"
        /\ GraphNodes(tree) = {"A", "B", "C"}
        /\ {<<"A", "B">>, <<"A", "C">>} \subseteq Edges(tree)

\* C5: every edge of the built graph starts at a component that was added
\* as a node, and every record that carries targets of the global section
\* is a component of the document whose name or purl is the 'ref' of some
\* entry of that section.
C5_EdgeSourcesAreNodes ==
    /\ \A e \in Edges(tree) : e[1] \in DeclaredNodes(tree)
    /\ (pc # "process" /\ fmt = "cyclonedx") =>
          /\ Len(dependencies) = Len(DocComponents(sbom))
          /\ \A k \in 1..Len(dependencies) :
                /\ dependencies[k].name = DocComponents(sbom)[k].name
                /\ AttachedStrs(dependencies[k]) # <<>> =>
                      \E j \in 1..Len(DocEntries(sbom)) :
                          RefMatches(dependencies[k],
                                     Get(DocEntries(sbom)[j], "ref", ""))

\* A graph with a nested edge was built from a list in which the global
\* section attached targets to a component.
C5_Witness ==
    /\ pc = "tree_returned"
    /\ Edges(tree) # {}
    /\ \E k \in 1..Len(dependencies) : AttachedStrs(dependencies[k]) # <<>>

\* The targets component k has received when only the first component
\* matching an entry's ref is given that entry's targets.
RECURSIVE TargetsOfFirstMatch(_, _, _)
TargetsOfFirstMatch(comps, entries, k) ==
    IF entries = <<>> THEN <<>>
    ELSE LET ref == Get(Head(entries), "ref", "")
             first == RefMatches(comps[k], ref)
                      /\ \A j \in 1..(k - 1) : ~RefMatches(comps[j], ref)
         IN  (IF first THEN WrapAll(Get(Head(entries), "dependsOn", <<>>))
              ELSE <<>>)
             \o TargetsOfFirstMatch(comps, Tail(entries), k)

\* The targets component k has received when every component matching an
\* entry's ref is given that entry's targets.
RECURSIVE TargetsOfEveryMatch(_, _, _)
TargetsOfEveryMatch(comps, entries, k) ==
    IF entries = <<>> THEN <<>>
    ELSE LET ref == Get(Head(entries), "ref", "")
         IN  (IF RefMatches(comps[k], ref)
              THEN WrapAll(Get(Head(entries), "dependsOn", <<>>))
              ELSE <<>>)
             \o TargetsOfEveryMatch(comps, Tail(entries), k)

\* C9 as stated: each entry of the global section gives its targets to the
\* first component, in list order, whose name or purl equals its ref, and
\* to no later component.
C9_FirstMatchOnly ==
    (pc = "processed" /\ fmt = "cyclonedx") =>
        \A k \in 1..Len(dependencies) :
            AttachedStrs(dependencies[k])
                = TargetsOfFirstMatch(DocComponents(sbom), DocEntries(sbom), k)

\* C9 amended: each entry of the global section gives its targets to every
\* component whose name or purl equals its ref; a later component that
\* matches the same ref receives them as well.
C9_EveryMatchReceives ==
    (pc = "processed" /\ fmt = "cyclonedx") =>
        \A k \in 1..Len(dependencies) :
            AttachedStrs(dependencies[k])
                = TargetsOfEveryMatch(DocComponents(sbom), DocEntries(sbom), k)

\* Two different components match the ref of one entry, one by name and one
\* by purl, and both hold its targets.
C9_Witness ==
    /\ pc = "processed"
    /\ fmt = "cyclonedx"
    /\ \E j, k \in 1..Len(dependencies) :
          /\ j < k
          /\ dependencies[j].name = "A"
          /\ dependencies[k].purl = "A"
          /\ AttachedStrs(dependencies[j]) # <<>>
          /\ AttachedStrs(dependencies[k]) = AttachedStrs(dependencies[j])

----------------------------------------------------------------------------
(* Properties of the vulnerability lookups (SpecVuln, FairSpecVuln) *)

Identity(d) == <<d.name, d.version>>
Identities == {Identity(dependencies[k]) : k \in 1..Len(dependencies)}
EntriesOf(id) == {k \in 1..Len(dependencies) : Identity(dependencies[k]) = id}
\* The loop is sequential: the k-th call is the one made for the k-th entry.
LookupsOf(id) == {k \in 1..Len(lookups) : Identity(dependencies[k]) = id}

Failed(outcome) ==
    \/ outcome.kind = "RequestException"
    \/ outcome.kind = "response" /\ outcome.status_code # 200
UnknownMarker(value) == value \in {PyEmptyDict, PyNone}

\* C2: when the call has returned, an identity (name, version) that two or
\* more entries of the list share has been looked up exactly once, and all
\* its entries read the same result from the report.
C2_OneLookupPerIdentity ==
    pc = "vuln_returned" =>
        \A id \in Identities :
            Cardinality(EntriesOf(id)) >= 2 =>
                /\ Cardinality(LookupsOf(id)) = 1
                /\ id[1] \in DOMAIN report

\* C3: when the call has returned, a lookup has been issued for every entry
\* of the list, and the report entry of every identity whose lookup failed
\* (network failure or non-success status) is an unknown marker.
C3_FailureIsUnknownOthersProceed ==
    pc = "vuln_returned" =>
        /\ Len(lookups) = Len(dependencies)
        /\ \A k \in 1..Len(lookups) :
              Failed(lookups[k].outcome) =>
                  UnknownMarker(report[dependencies[k].name])

\* C6: a completed lookup writes only into a report slot that holds no
\* result yet; a slot once written is never written again.
C6_WrittenOnce ==
    [][(pc = "awaiting" /\ pc' = "vuln_loop") =>
            dependencies[i].name \notin DOMAIN report]_vars

\* C7: the call check_all_vulnerabilites eventually returns, whatever the
\* vulnerability source does.
C7_CallReturns == <>(pc = "vuln_returned")

\* C8: every request goes to https://vulndb.com/api/<name>, and a call
\* answered with status 200 returns the findings payload of the response;
\* any other outcome returns a no-data value.
C8_RequestAndPayload ==
    \A k \in 1..Len(lookups) :
        /\ lookups[k].url = RequestUrlOfTest(lookups[k].library)
        /\ lookups[k].returned # Pending =>
              lookups[k].returned = ReturnedPayload(lookups[k].outcome)

----------------------------------------------------------------------------
(* Properties of main (Spec) *)

\* C10: main parses and processes the SBOM only in a run that found the
\* schema file on disk when it started; a run that found it absent ends
\* right after the download attempt with nothing parsed or processed, so a
\* start without the schema file builds no graph in the first invocation.
C10_ProcessingNeedsSchemaAtStart ==
    /\ [](/\ pc \notin {"main", "download", "returned"} => schemaExisted
          /\ pc \in {"download", "returned"} =>
                (~schemaExisted /\ RunLocalsFresh))
    /\ (~schemaOnDisk =>
          [](invocations = 1 => (sbom = Unbound /\ tree = <<>>)))

\* The second invocation has built a graph although nothing was rendered
\* before: the first one ended at the download.
C10_Witness ==
    /\ invocations = 2
    /\ pc = "tree_returned"
    /\ schemaExisted
    /\ tree # <<>>
    /\ artifacts = {}

====
